---- MODULE Spec2Model ----
(***************************************************************************)
(* Model of gdt/automatch/matchmaker/isotropic.py: IsotropicMatchmaker.    *)
(*                                                                         *)
(* One call of generate_matches is a run of the state machine below.  The  *)
(* python objects are modelled as follows.                                 *)
(*   - A Seek object is its position in `pool`; pool[s] holds the fields   *)
(*     the matchmaker reads: player.sets_owned (only its len() is read)    *)
(*     and the ordered list of requirements.  player.pname of seek s is s: *)
(*     distinct seeks belong to distinct players.                          *)
(*   - A requirement is a record with its class name and its fields.       *)
(*     A NumPlayers bound is a python int or a python str (the source      *)
(*     casts with int()), so a bound is a tagged value.                    *)
(*   - random.randrange / random.shuffle are nondeterministic choices.     *)
(*   - Match.is_match_ok is an external collaborator: `oracle` fixes the   *)
(*     collaborator of this run: one that accepts every host, one that     *)
(*     rejects every host, or one whose answers are arbitrary at each call.*)
(***************************************************************************)
EXTENDS Integers, Sequences, FiniteSets, TLC

VARIABLES
    pool,       \* the Seek objects of the heap: pool[s] = fields of seek s
    input,      \* the caller's collection (argument `seeks`), a list of seek ids
    oracle,     \* behaviour of Match.is_match_ok: "accept", "reject" or "free"
    pc,         \* position in generate_matches
    seeks,      \* local `seeks` after line 96: the working pool (a set)
    matches,    \* local `matches`
    ri,         \* position of the `for rsys` loop (index into RSYS)
    ni,         \* position of the `for N` loop (index into SIZES)
    S,          \* local list `S`
    X,          \* local `X` (0 while unbound)
    i,          \* number of trials of the `for i in range(5)` loop done for X
    call,       \* the last call of choose_host: its argument, the answers of
                \* is_match_ok during it, and its outcome
    verdict,    \* the outcome of the last direct application of acc_N_rs
    err         \* the exception that ended the call ("none" when none)

vars == <<pool, input, oracle, pc, seeks, matches, ri, ni, S, X, i, call, verdict, err>>

(***************************************************************************)
(* Bounds of the model.                                                    *)
(***************************************************************************)
\* Largest size of a pool drawn freely from SeekKinds.
MaxPool == 3

(***************************************************************************)
(* Program constants.                                                      *)
(***************************************************************************)
\* `for rsys in ['pro', 'casual', 'unrated']`
RSYS == <<"pro", "casual", "unrated">>

\* `for N in [6, 5, 4, 3, 2]`
SIZES == <<6, 5, 4, 3, 2>>

\* `for i in range(5)`
NUM_TRIALS == 5

\* `max_hostsets = 0`
INIT_HOSTSETS == 0

(***************************************************************************)
(* Python values.                                                          *)
(***************************************************************************)
\* A python int.
PyInt(n) == [type |-> "int", int |-> n, str |-> <<>>]

\* A python str, as the sequence of its characters.
PyStr(s) == [type |-> "str", int |-> 0, str |-> s]

Digits == <<"0", "1", "2", "3", "4", "5", "6", "7", "8", "9">>

IsDigit(c) == \E d \in 1..10 : Digits[d] = c

DigitVal(c) == (CHOOSE d \in 1..10 : Digits[d] = c) - 1

\* str.strip() of whitespace, as int() does before parsing.
RECURSIVE LStrip(_)
LStrip(s) == IF s # <<>> /\ Head(s) = " " THEN LStrip(Tail(s)) ELSE s

RECURSIVE RStrip(_)
RStrip(s) ==
    IF s # <<>> /\ s[Len(s)] = " " THEN RStrip(SubSeq(s, 1, Len(s) - 1)) ELSE s

\* Value of a nonempty sequence of decimal digits.
RECURSIVE DecVal(_)
DecVal(s) ==
    IF s = <<>> THEN 0
    ELSE 10 * DecVal(SubSeq(s, 1, Len(s) - 1)) + DigitVal(s[Len(s)])

\* int(v): [ok |-> TRUE, val |-> n], or ok = FALSE when int() raises ValueError.
int(v) ==
    IF v.type = "int" THEN [ok |-> TRUE, val |-> v.int]
    ELSE
        LET t == RStrip(LStrip(v.str))
            signed == t # <<>> /\ Head(t) \in {"+", "-"}
            d == IF signed THEN Tail(t) ELSE t
        IN  IF d # <<>> /\ \A k \in 1..Len(d) : IsDigit(d[k])
            THEN [ok |-> TRUE,
                  val |-> IF signed /\ Head(t) = "-" THEN 0 - DecVal(d) ELSE DecVal(d)]
            ELSE [ok |-> FALSE, val |-> 0]

(***************************************************************************)
(* Requirements and seeks.                                                 *)
(***************************************************************************)
NumPlayers(lo, hi) ==
    [class |-> "NumPlayers", min_players |-> lo, max_players |-> hi,
     rating_system |-> "", vpcounter |-> ""]

RatingSystem(r) ==
    [class |-> "RatingSystem", min_players |-> PyInt(0), max_players |-> PyInt(0),
     rating_system |-> r, vpcounter |-> ""]

\* v is "on", "off" or "None".
VPCounter(v) ==
    [class |-> "VPCounter", min_players |-> PyInt(0), max_players |-> PyInt(0),
     rating_system |-> "", vpcounter |-> v]

\* A Seek whose player owns n sets and whose requirements are reqs.
Seek(n, reqs) == [sets_owned |-> n, requirements |-> reqs]

(***************************************************************************)
(* accepts(N, rsys)(seek): "True", "False", or "ValueError" when an int()  *)
(* cast raises.  The chained comparison a <= N <= b evaluates int(b) only  *)
(* when int(a) <= N.                                                       *)
(***************************************************************************)
RECURSIVE acc_reqs(_, _, _)
acc_reqs(N, rsys, reqs) ==
    IF reqs = <<>> THEN "True"
    ELSE
        LET r == Head(reqs)
            lo == int(r.min_players)
            hi == int(r.max_players)
            np == IF r.class # "NumPlayers" THEN "pass"
                  ELSE IF ~lo.ok THEN "ValueError"
                  ELSE IF ~(lo.val <= N) THEN "False"
                  ELSE IF ~hi.ok THEN "ValueError"
                  ELSE IF ~(N <= hi.val) THEN "False"
                  ELSE "pass"
            rs == IF r.class = "RatingSystem" /\ r.rating_system # rsys
                  THEN "False" ELSE "pass"
        IN  IF np # "pass" THEN np
            ELSE IF rs # "pass" THEN rs
            ELSE acc_reqs(N, rsys, Tail(reqs))

\* accepts that returns after the first requirement of the seek.
accepts_first_only(N, rsys, seek) ==
    acc_reqs(N, rsys, IF seek.requirements = <<>> THEN <<>>
                      ELSE <<Head(seek.requirements)>>)

\* accepts with the RatingSystem requirements left out of the scan.
accepts_any_rating(N, rsys, seek) ==
    acc_reqs(N, rsys, SelectSeq(seek.requirements, LAMBDA r : r.class # "RatingSystem"))

accepts(N, rsys, seek) == acc_reqs(N, rsys, seek.requirements)

(***************************************************************************)
(* Lists, sets and the random source.                                      *)
(***************************************************************************)
\* set(l) of a list l.
SetOf(l) == {l[k] : k \in 1..Len(l)}

\* The members of a set of seek ids as a list in ascending order.
RECURSIVE Ascending(_)
Ascending(T) ==
    IF T = {} THEN <<>>
    ELSE LET m == CHOOSE x \in T : \A y \in T : x <= y
         IN  <<m>> \o Ascending(T \ {m})

\* Shuffles that loses the element that ends up last.
Shuffles_drop_last(l) ==
    {[k \in 1..(Len(l) - 1) |-> l[p[k]]] : p \in Permutations(1..Len(l))}

\* Every order random.shuffle(l) can leave the list l in.
Shuffles(l) == {[k \in 1..Len(l) |-> l[p[k]]] : p \in Permutations(1..Len(l))}

\* l.pop(k) for a 1-based position k: the list without its k-th element.
Pop(l, k) == SubSeq(l, 1, k - 1) \o SubSeq(l, k + 1, Len(l))

\* l[0:n], clipped to the list as python slices are.
Slice0(l, n) == SubSeq(l, 1, IF n < Len(l) THEN n ELSE Len(l))

(***************************************************************************)
(* choose_host(match), lines 66-89.                                        *)
(* players is match.seeks; ok is the set of positions k of players for     *)
(* which is_match_ok() returned true with hostname = players[k].pname.     *)
(***************************************************************************)
\* len(host.sets_owned) for the player of seek s.
num_sets(s) == pool[s].sets_owned

\* Lines 69-73: the players that passed is_match_ok, in the order of match.seeks.
RECURSIVE possible_hosts(_, _, _)
possible_hosts(players, ok, k) ==
    IF k > Len(players) THEN <<>>
    ELSE (IF k \in ok THEN <<players[k]>> ELSE <<>>)
         \o possible_hosts(players, ok, k + 1)

\* Line 83: `len(host.sets_owned) > max_hostsets`.
MoreSets(n, max_hostsets) == n > max_hostsets

\* max_host that takes the first possible host without comparing sets.
max_host_first(hosts, max_hostsets, best) ==
    IF hosts = <<>> THEN best ELSE Head(hosts)

\* Lines 80-85: the scan for the host with the most sets; 0 stands for None.
RECURSIVE max_host(_, _, _)
max_host(hosts, max_hostsets, best) ==
    IF hosts = <<>> THEN best
    ELSE IF MoreSets(num_sets(Head(hosts)), max_hostsets)
         THEN max_host(Tail(hosts), num_sets(Head(hosts)), Head(hosts))
         ELSE max_host(Tail(hosts), max_hostsets, best)

\* The outcome of choose_host: "None" (line 77), "match" with the hostname
\* (line 89), or "AttributeError" when line 88 reads max_host.pname of None.
choose_host(players, ok) ==
    LET ph == possible_hosts(players, ok, 1)
        mh == max_host(ph, INIT_HOSTSETS, 0)
    IN  IF Len(ph) = 0 THEN [status |-> "None", hostname |-> 0, hosts |-> ph]
        ELSE IF mh = 0 THEN [status |-> "AttributeError", hostname |-> 0, hosts |-> ph]
        ELSE [status |-> "match", hostname |-> mh, hosts |-> ph]

\* The record of one call of choose_host.
HostCall(players, ok, h) ==
    [players |-> players, ok |-> ok, status |-> h.status, hostname |-> h.hostname]

NoCall == HostCall(<<>>, {}, [status |-> "", hostname |-> 0])

\* The answers Match.is_match_ok can give for the members of one group.
OracleAnswers(players) ==
    CASE oracle = "accept" -> {1..Len(players)}
      [] oracle = "reject" -> {{}}
      [] OTHER -> SUBSET (1..Len(players))

(***************************************************************************)
(* The steps of generate_matches, lines 91-142.                            *)
(***************************************************************************)
rsys == RSYS[ri]

N == SIZES[ni]

\* Line 103: the results of the predicate on the working pool.
Verdicts(pl) == {accepts(N, rsys, pool[s]) : s \in pl}

\* Line 103: list(filter(accepts(N, rsys), seeks)).  A set is iterated in the
\* order its hashes fix; the model takes ascending ids.  The order is never
\* observed: X is popped at a random position and every read of S's order
\* follows a random.shuffle(S).
Filter(pl) == Ascending({s \in pl : accepts(N, rsys, pool[s]) = "True"})

\* TooFew that lets a candidate set of N - 1 seeks through.
TooFew_off_by_one(l, n) == Len(l) < n - 1

\* Line 104: `len(S) < N`.
TooFew(l, n) == Len(l) < n

\* InRange with one iteration more.
InRange_one_more(k) == k <= NUM_TRIALS

\* Line 110: the `for i in range(5)` loop has another iteration.
InRange(k) == k < NUM_TRIALS

\* Group with the slice S[0:N].
Group_one_more(x, l, n) == <<x>> \o Slice0(l, n)

\* Line 114: `[X] + S[0:N-1]`.
Group(x, l, n) == <<x>> \o Slice0(l, n - 1)

\* vp_of_reqs that keeps the first value found instead of the last.
RECURSIVE vp_first_wins(_, _)
vp_first_wins(reqs, cur) ==
    IF reqs = <<>> THEN cur
    ELSE LET r == Head(reqs)
         IN  vp_first_wins(Tail(reqs),
                           IF r.class = "VPCounter" /\ r.vpcounter # "None" /\ cur = "None"
                           THEN r.vpcounter ELSE cur)

\* Lines 127-132: the VPON/VPOFF setting of a match over its seeks.
RECURSIVE vp_of_reqs(_, _)
vp_of_reqs(reqs, cur) ==
    IF reqs = <<>> THEN cur
    ELSE LET r == Head(reqs)
         IN  vp_of_reqs(Tail(reqs),
                        IF r.class = "VPCounter" /\ r.vpcounter # "None"
                        THEN r.vpcounter ELSE cur)

RECURSIVE vp_of_seeks(_, _)
vp_of_seeks(players, cur) ==
    IF players = <<>> THEN cur
    ELSE vp_of_seeks(Tail(players),
                     vp_of_reqs(pool[Head(players)].requirements, cur))

\* Unmatched that removes X only.
Unmatched_only_X(pl, players) == pl \ {players[1]}

\* Unmatched that leaves X in the working pool.
Unmatched_keeps_X(pl, players) == pl \ SetOf(Tail(players))

\* Line 138: `seeks - set(players)`.
Unmatched(pl, players) == pl \ SetOf(players)

\* Line 138 with the removal done in place on the caller's collection.
CallerSeeks_in_place(l, players) == SelectSeq(l, LAMBDA e : e \notin SetOf(players))

\* Lines 96 and 138 for the caller's collection l: `seeks` was rebound to a
\* copy and `seeks - set(players)` builds a new set, so l stays as it is.
CallerSeeks(l, players) == l

\* The finalized Match object of lines 117-132; `hosts` records the players
\* for whom is_match_ok answered true when its host was chosen.
NewMatch(players, h) ==
    [seeks |-> players, rating_system |-> rsys, hostname |-> h.hostname,
     roomname |-> "Outpost", vpcounter |-> vp_of_seeks(players, "None"),
     hosts |-> h.hosts]

\* NextCombo that stays at (rsys, N) after a match while 2N seeks were there.
NextCombo_repeat ==
    IF pc = "trial" /\ InRange(i) /\ Len(Filter(seeks)) >= 2 * N
    THEN ni' = ni /\ ri' = ri /\ pc' = "loop"
    ELSE IF ni < Len(SIZES) THEN ni' = ni + 1 /\ ri' = ri /\ pc' = "loop"
    ELSE IF ri < Len(RSYS) THEN ni' = 1 /\ ri' = ri + 1 /\ pc' = "loop"
    ELSE ni' = ni /\ ri' = ri /\ pc' = "done"

\* The two `for` statements move on to the next (rsys, N); after the last
\* one the call returns `matches` (line 142).
NextCombo ==
    IF ni < Len(SIZES) THEN ni' = ni + 1 /\ ri' = ri /\ pc' = "loop"
    ELSE IF ri < Len(RSYS) THEN ni' = 1 /\ ri' = ri + 1 /\ pc' = "loop"
    ELSE ni' = ni /\ ri' = ri /\ pc' = "done"

\* Lines 93-96: the call starts.
Start ==
    /\ pc = "idle"
    /\ matches' = <<>>
    /\ seeks' = SetOf(input)
    /\ pc' = "loop"
    /\ UNCHANGED <<pool, input, oracle, ri, ni, S, X, i, call, err, verdict>>

\* Line 103 raises: an int() cast of the predicate fails.
FilterRaises ==
    /\ pc = "loop"
    /\ "ValueError" \in Verdicts(seeks)
    /\ pc' = "raised"
    /\ err' = "ValueError"
    /\ UNCHANGED <<pool, input, oracle, seeks, matches, ri, ni, S, X, i, call, verdict>>

\* Lines 103-105: too few seeks accept (N, rsys): `continue`.
Skip ==
    /\ pc = "loop"
    /\ "ValueError" \notin Verdicts(seeks)
    /\ TooFew(Filter(seeks), N)
    /\ S' = Filter(seeks)
    /\ NextCombo
    /\ UNCHANGED <<pool, input, oracle, seeks, matches, X, i, call, err, verdict>>

\* Lines 103-108: enough seeks accept; X is popped from S at a random position.
PickX ==
    /\ pc = "loop"
    /\ "ValueError" \notin Verdicts(seeks)
    /\ ~TooFew(Filter(seeks), N)
    /\ \E k \in 1..Len(Filter(seeks)) :
          /\ X' = Filter(seeks)[k]
          /\ S' = Pop(Filter(seeks), k)
    /\ i' = 0
    /\ pc' = "trial"
    /\ UNCHANGED <<pool, input, oracle, seeks, matches, ri, ni, call, err, verdict>>

\* Lines 110-120: one trial in which choose_host returns None.
TrialFails ==
    /\ pc = "trial"
    /\ InRange(i)
    /\ \E l \in Shuffles(S) :
          LET players == Group(X, l, N)
          IN  \E ok \in OracleAnswers(players) :
                 LET h == choose_host(players, ok)
                 IN  /\ h.status = "None"
                     /\ S' = l
                     /\ call' = HostCall(players, ok, h)
    /\ i' = i + 1
    /\ UNCHANGED <<pool, input, oracle, pc, seeks, matches, ri, ni, X, err, verdict>>

\* Lines 110-139: one trial in which choose_host returns the match: the match
\* is finalized and appended, its seeks leave the working pool, `break`.
TrialMatches ==
    /\ pc = "trial"
    /\ InRange(i)
    /\ \E l \in Shuffles(S) :
          LET players == Group(X, l, N)
          IN  \E ok \in OracleAnswers(players) :
                 LET h == choose_host(players, ok)
                 IN  /\ h.status = "match"
                     /\ S' = l
                     /\ call' = HostCall(players, ok, h)
                     /\ matches' = Append(matches, NewMatch(players, h))
                     /\ seeks' = Unmatched(seeks, players)
                     /\ input' = CallerSeeks(input, players)
    /\ NextCombo
    /\ UNCHANGED <<pool, oracle, X, i, err, verdict>>

\* Lines 110-118, 88: one trial in which choose_host raises.
TrialRaises ==
    /\ pc = "trial"
    /\ InRange(i)
    /\ \E l \in Shuffles(S) :
          LET players == Group(X, l, N)
          IN  \E ok \in OracleAnswers(players) :
                 LET h == choose_host(players, ok)
                 IN  /\ h.status = "AttributeError"
                     /\ S' = l
                     /\ call' = HostCall(players, ok, h)
    /\ pc' = "raised"
    /\ err' = "AttributeError"
    /\ UNCHANGED <<pool, input, oracle, seeks, matches, ri, ni, X, i, verdict>>

\* Line 110: range(5) is exhausted without a match; on to the next (rsys, N).
Abandon ==
    /\ pc = "trial"
    /\ ~InRange(i)
    /\ NextCombo
    /\ UNCHANGED <<pool, input, oracle, seeks, matches, S, X, i, call, err, verdict>>

(***************************************************************************)
(* The input pools of the model.                                           *)
(***************************************************************************)
\* The kinds of seek the freely drawn pools are made of.
SeekKinds ==
    { Seek(0, <<>>),
      Seek(1, <<NumPlayers(PyInt(2), PyStr(<<"3">>)), VPCounter("on")>>),
      Seek(2, <<RatingSystem("casual"), VPCounter("off"),
                NumPlayers(PyStr(<<"2">>), PyStr(<<" ", "2">>))>>) }

\* Every pool of at most MaxPool seeks of these kinds.
FreePools == UNION {[1..n -> SeekKinds] : n \in 0..MaxPool}

CasualPair(n) == Seek(n, <<RatingSystem("casual"), NumPlayers(PyInt(2), PyInt(2))>>)

ProPair(n) == Seek(n, <<NumPlayers(PyInt(2), PyStr(<<"2">>)), RatingSystem("pro")>>)

\* 6 seeks, all casual, PartySize{2,2}, no score display preference.
SixCasual ==
    <<CasualPair(1), CasualPair(2), CasualPair(1), CasualPair(3), CasualPair(2),
      CasualPair(1)>>

\* 3 seeks that all require PartySize{4,6}.
ThreeLarge ==
    <<Seek(1, <<NumPlayers(PyInt(4), PyInt(6))>>),
      Seek(2, <<NumPlayers(PyInt(4), PyInt(6)), RatingSystem("casual")>>),
      Seek(0, <<NumPlayers(PyStr(<<"4">>), PyStr(<<"6">>))>>)>>

\* Enough pro seeks for two pro matches and enough casual seeks for a casual one.
Mixed ==
    <<ProPair(1), CasualPair(1), ProPair(2), ProPair(1), CasualPair(2), ProPair(3)>>

\* Seeks that disagree on the score display; one carries two preferences.
ScoreDisplay ==
    <<Seek(1, <<NumPlayers(PyInt(3), PyInt(3)), VPCounter("on")>>),
      Seek(1, <<VPCounter("None"), NumPlayers(PyInt(2), PyInt(3))>>),
      Seek(2, <<VPCounter("off"), VPCounter("None")>>),
      Seek(1, <<VPCounter("on"), VPCounter("off"), NumPlayers(PyInt(2), PyInt(2))>>)>>

\* One seek with the preference on, all others unset.
OneOn ==
    <<Seek(1, <<NumPlayers(PyInt(3), PyInt(4)), VPCounter("None")>>),
      Seek(2, <<NumPlayers(PyInt(3), PyInt(4)), VPCounter("on")>>),
      Seek(3, <<NumPlayers(PyInt(3), PyInt(4))>>)>>

\* Players who own no sets next to one who owns some.
NoSets ==
    <<Seek(0, <<NumPlayers(PyInt(2), PyInt(3))>>),
      Seek(0, <<NumPlayers(PyInt(2), PyInt(3))>>),
      Seek(2, <<NumPlayers(PyInt(2), PyInt(3))>>)>>

\* Unrated seeks for a game of three and for a game of two.
TwoSizes ==
    <<Seek(1, <<RatingSystem("unrated"), NumPlayers(PyInt(3), PyInt(3))>>),
      Seek(2, <<RatingSystem("unrated"), NumPlayers(PyInt(2), PyInt(2))>>),
      Seek(1, <<RatingSystem("unrated"), NumPlayers(PyInt(3), PyInt(3))>>),
      Seek(1, <<RatingSystem("unrated"), NumPlayers(PyInt(2), PyInt(2))>>),
      Seek(3, <<RatingSystem("unrated"), NumPlayers(PyInt(3), PyInt(3))>>)>>

\* A seek whose bounds int() cannot cast.
Malformed ==
    <<Seek(1, <<NumPlayers(PyInt(3), PyStr(<<"x">>)), RatingSystem("casual")>>),
      Seek(1, <<NumPlayers(PyInt(2), PyInt(3))>>)>>

Pools ==
    FreePools \cup {SixCasual, ThreeLarge, Mixed, ScoreDisplay, OneOn, NoSets, TwoSizes,
                    Malformed}

\* The behaviours of Match.is_match_ok.
Oracles == {"accept", "reject", "free"}

\* The inputs of the model: a pool and the collaborator it is matched with.
\* The pool of six is run with the collaborator of its scenario.
Inputs ==
    ((Pools \ {SixCasual}) \X Oracles) \cup {<<SixCasual, "accept">>}

\* No int() cast of a NumPlayers bound of the pool raises.
WellFormed(p) ==
    \A s \in 1..Len(p) : \A k \in 1..Len(p[s].requirements) :
        LET r == p[s].requirements[k]
        IN  r.class = "NumPlayers" => int(r.min_players).ok /\ int(r.max_players).ok

(***************************************************************************)
(* The specification.                                                      *)
(***************************************************************************)
Init ==
    /\ \E in \in Inputs :
          /\ pool = in[1]
          /\ oracle = in[2]
    /\ input = [k \in 1..Len(pool) |-> k]
    /\ pc = "idle"
    /\ seeks = {}
    /\ matches = <<>>
    /\ ri = 1
    /\ ni = 1
    /\ S = <<>>
    /\ X = 0
    /\ i = 0
    /\ call = NoCall
    /\ verdict = "none"
    /\ err = "none"

Next ==
    \/ Start
    \/ FilterRaises
    \/ Skip
    \/ PickX
    \/ TrialFails
    \/ TrialMatches
    \/ TrialRaises
    \/ Abandon

Spec == Init /\ [][Next]_vars

TypeOK ==
    /\ pc \in {"idle", "loop", "trial", "done", "raised"}
    /\ seeks \subseteq 1..Len(pool)
    /\ ri \in 1..Len(RSYS)
    /\ ni \in 1..Len(SIZES)
    /\ i \in 0..NUM_TRIALS
    /\ err \in {"none", "ValueError", "AttributeError"}

(***************************************************************************)
(* The predicate applied on its own: accepts(N, rsys)(seek) for one seek.  *)
(***************************************************************************)
\* Largest number of requirements of the seek the predicate is applied to.
MaxReqs == 2

\* The requirements that seek is made of; two of them have a bound that int()
\* cannot cast.
ReqChoices ==
    { NumPlayers(PyInt(2), PyInt(3)),
      NumPlayers(PyStr(<<"3">>), PyStr(<<"4", " ">>)),
      NumPlayers(PyStr(<<"x">>), PyInt(3)),
      NumPlayers(PyInt(4), PyStr(<<>>)),
      RatingSystem("pro"),
      RatingSystem("casual"),
      VPCounter("on") }

ReqLists == UNION {[1..n -> ReqChoices] : n \in 0..MaxReqs}

InitAccepts ==
    /\ \E reqs \in ReqLists : pool = <<Seek(1, reqs)>>
    /\ input = <<1>>
    /\ oracle = "accept"
    /\ pc = "predicate"
    /\ seeks = {}
    /\ matches = <<>>
    /\ ri \in 1..Len(RSYS)
    /\ ni \in 1..Len(SIZES)
    /\ S = <<>>
    /\ X = 0
    /\ i = 0
    /\ call = NoCall
    /\ verdict = "none"
    /\ err = "none"

\* Lines 46-57: acc_N_rs(seek) is called; it assigns nothing but its result.
ApplyAccepts ==
    /\ pc = "predicate"
    /\ verdict' = accepts(N, rsys, pool[1])
    /\ pc' = "applied"
    /\ UNCHANGED <<pool, input, oracle, seeks, matches, ri, ni, S, X, i, call, err>>

NextAccepts == ApplyAccepts

SpecAccepts == InitAccepts /\ [][NextAccepts]_vars

(***************************************************************************)
(* Properties.                                                             *)
(***************************************************************************)
\* The seeks of match number k, as a set.
Members(k) == SetOf(matches[k].seeks)

\* C1 (Disjointness): any two distinct matches of one call share no seek, and
\* no seek occurs twice inside one match: every seek of the output is in
\* exactly one match, at exactly one position.
C1_Disjoint ==
    /\ \A a, b \in 1..Len(matches) : a # b => Members(a) \cap Members(b) = {}
    /\ \A a \in 1..Len(matches) :
          \A j, k \in 1..Len(matches[a].seeks) :
              j # k => matches[a].seeks[j] # matches[a].seeks[k]

\* A call has returned two matches.
C1_Witness == pc = "done" /\ Len(matches) >= 2

\* C2 (Requirement satisfaction): in every match with tier T and K seeks,
\* every NumPlayers requirement of every participating seek has
\* int(min_players) <= K <= int(max_players), and every RatingSystem
\* requirement has rating_system = T.
C2_RequirementsMet ==
    \A a \in 1..Len(matches) :
        LET m == matches[a]
            K == Len(m.seeks)
        IN  \A j \in 1..K : \A q \in 1..Len(pool[m.seeks[j]].requirements) :
                LET r == pool[m.seeks[j]].requirements[q]
                IN  /\ r.class = "NumPlayers" =>
                          /\ int(r.min_players).ok
                          /\ int(r.max_players).ok
                          /\ int(r.min_players).val <= K
                          /\ K <= int(r.max_players).val
                    /\ r.class = "RatingSystem" => r.rating_system = m.rating_system

\* A returned match holds a seek with a rating requirement and string bounds.
C2_Witness ==
    /\ pc = "done"
    /\ \E a \in 1..Len(matches) : \E j \in 1..Len(matches[a].seeks) :
          \E q, q2 \in 1..Len(pool[matches[a].seeks[j]].requirements) :
              LET rq == pool[matches[a].seeks[j]].requirements
              IN  /\ rq[q].class = "RatingSystem"
                  /\ rq[q2].class = "NumPlayers"
                  /\ rq[q2].min_players.type = "str"

\* C3 (Host legality): the host of every match is a participant for whom
\* is_match_ok answered true, no participant for whom it answered true owns
\* strictly more sets than the host, and no match is without such a host.
C3_HostLegal ==
    \A a \in 1..Len(matches) :
        LET m == matches[a]
        IN  /\ m.hosts # <<>>
            /\ SetOf(m.hosts) \subseteq SetOf(m.seeks)
            /\ m.hostname \in SetOf(m.hosts)
            /\ \A p \in SetOf(m.hosts) : num_sets(p) <= num_sets(m.hostname)

\* A match whose host was chosen among several eligible players with different
\* numbers of sets, while a player with more sets than the host was refused.
C3_Witness ==
    \E a \in 1..Len(matches) :
        LET m == matches[a]
        IN  /\ \E p \in SetOf(m.hosts) : num_sets(p) < num_sets(m.hostname)
            /\ \E p \in SetOf(m.seeks) \ SetOf(m.hosts) :
                  num_sets(p) > num_sets(m.hostname)

\* C4 (Repeated matching at one (tier, size)): for the pool of 6 casual seeks
\* with PartySize{2,2} and an oracle that accepts every group, the call
\* returns exactly 3 matches of size 2 and tier casual that cover all 6 seeks.
C4_ThreeMatchesOfSix ==
    (pc = "done" /\ pool = SixCasual /\ oracle = "accept") =>
        /\ Len(matches) = 3
        /\ \A a \in 1..Len(matches) :
              Len(matches[a].seeks) = 2 /\ matches[a].rating_system = "casual"
        /\ UNION {Members(a) : a \in 1..Len(matches)} = 1..Len(pool)

\* C5 (Totality): on a well-formed pool the call never raises, and on the
\* empty pool it returns the empty list.
C5_Total ==
    WellFormed(pool) =>
        /\ pc # "raised"
        /\ (pc = "done" /\ pool = <<>>) => matches = <<>>

\* The eligible positions of a call of choose_host that own the most sets.
BestHosts(c) ==
    {k \in c.ok : \A j \in c.ok : num_sets(c.players[j]) <= num_sets(c.players[k])}

\* C6 (choose_host result): choose_host returns None exactly when no member
\* passes is_match_ok; otherwise it returns the match hosted by the eligible
\* member with the most sets, the first of them in seek order on a tie.
C6_ChooseHostResult ==
    call # NoCall =>
        /\ call.status = "None" <=> call.ok = {}
        /\ call.ok # {} =>
              /\ call.status = "match"
              /\ \E k \in BestHosts(call) :
                    /\ call.hostname = call.players[k]
                    /\ \A j \in BestHosts(call) : k <= j

\* Some n seeks of the working pool accept (n, tier).
GroupAvailable(tier) ==
    \E k \in 1..Len(SIZES) :
        Cardinality({s \in seeks : accepts(SIZES[k], tier, pool[s]) = "True"}) >= SIZES[k]

\* C7 (Priority ordering): with an oracle that accepts every group, no casual
\* trial is run while a pro group can still be formed from the working pool.
C7_ProExhaustedFirst ==
    (oracle = "accept" /\ pc = "trial" /\ rsys = "casual") => ~GroupAvailable("pro")

\* C8 (Retry bound): at most 5 trials are run for a picked X; when the trials
\* end without a match and without an exception, exactly 5 were run and X and
\* the whole working pool are left as they were; at every (tier, N) that is
\* tried, the candidates are all seeks of the working pool that accept
\* (N, tier), a seek abandoned earlier included.
C8_RetryBound ==
    /\ [](i <= 5)
    /\ [](pc = "trial" =>
            SetOf(S) \cup {X} = {s \in seeks : accepts(N, rsys, pool[s]) = "True"})
    /\ [][(pc = "trial" /\ pc' \notin {"trial", "raised"} /\ matches' = matches) =>
            (i = 5 /\ X \in seeks' /\ seeks' = seeks)]_vars

\* Two seeks that both accept (2, pro) are on trial for a casual game with no
\* match made: the X picked at (pro, 2) was abandoned and is a candidate again.
C8_Witness ==
    /\ pc = "trial"
    /\ rsys = "casual"
    /\ N = 2
    /\ matches = <<>>
    /\ Len(pool) = 2
    /\ seeks = {1, 2}
    /\ \A s \in seeks : accepts(2, "pro", pool[s]) = "True"
    /\ SetOf(S) \cup {X} = {1, 2}

\* The non-unset score display preferences of a list of requirements, in order.
RECURSIVE VPValuesOfReqs(_)
VPValuesOfReqs(reqs) ==
    IF reqs = <<>> THEN <<>>
    ELSE (IF Head(reqs).class = "VPCounter" /\ Head(reqs).vpcounter # "None"
          THEN <<Head(reqs).vpcounter>> ELSE <<>>) \o VPValuesOfReqs(Tail(reqs))

\* The same over the seeks of a match, seek by seek.
RECURSIVE VPValues(_)
VPValues(players) ==
    IF players = <<>> THEN <<>>
    ELSE VPValuesOfReqs(pool[Head(players)].requirements) \o VPValues(Tail(players))

\* C9 (Score-display reconciliation): the vpcounter of every match is the last
\* non-unset preference met over its seeks in order and their requirements in
\* order, and is unset when there is none; when one seek says on and all
\* others are unset the setting is on.
C9_LastValueWins ==
    \A a \in 1..Len(matches) :
        LET v == VPValues(matches[a].seeks)
        IN  /\ matches[a].vpcounter = IF v = <<>> THEN "None" ELSE v[Len(v)]
            /\ pool = OneOn => matches[a].vpcounter = "on"

\* A returned match whose seeks disagree on the score display.
C9_Witness ==
    /\ pc = "done"
    /\ \E a \in 1..Len(matches) :
          LET v == VPValues(matches[a].seeks)
          IN  Len(v) >= 2 /\ v[1] # v[Len(v)]

\* The seeks of the working pool that accept the current (N, rsys).
Candidates == {s \in seeks : accepts(N, rsys, pool[s]) = "True"}

\* C10 (Too-small candidate set): a trial is run, and a match is emitted, only
\* at a (tier, N) that at least N seeks of the working pool accept; the pool of
\* 3 seeks requiring PartySize{4,6} yields no trial, no match, and keeps all 3
\* seeks in the working pool.
C10_TooSmallSkipped ==
    /\ [](pc = "trial" => Cardinality(Candidates) >= N)
    /\ [][matches' # matches => (pc = "trial" /\ Cardinality(Candidates) >= N)]_vars
    /\ [](pool = ThreeLarge =>
            /\ pc # "trial"
            /\ matches = <<>>
            /\ pc = "done" => seeks = {1, 2, 3})

\* The pool of 3 seeks requiring PartySize{4,6} has been through the whole pass.
C10_Witness == pool = ThreeLarge /\ pc = "done" /\ seeks = {1, 2, 3}

\* Every NumPlayers requirement of reqs has int(min_players) <= n <=
\* int(max_players) and every RatingSystem requirement has the value tier.
AllRequirementsHold(n, tier, reqs) ==
    \A k \in 1..Len(reqs) :
        /\ reqs[k].class = "NumPlayers" =>
              /\ int(reqs[k].min_players).ok
              /\ int(reqs[k].max_players).ok
              /\ int(reqs[k].min_players).val <= n
              /\ n <= int(reqs[k].max_players).val
        /\ reqs[k].class = "RatingSystem" => reqs[k].rating_system = tier

\* C11 (Requirement predicate): accepts(N, tier)(seek) is true iff every
\* NumPlayers requirement of the seek has int(min) <= N <= int(max) and every
\* RatingSystem requirement has the value tier, over all requirements of the
\* seek; with castable bounds it is false otherwise; it changes no state.
C11_AcceptsIffAllHold ==
    /\ [](pc = "applied" =>
            /\ verdict = "True" <=> AllRequirementsHold(N, rsys, pool[1].requirements)
            /\ WellFormed(pool) => verdict \in {"True", "False"})
    /\ [][pc = "predicate" =>
            UNCHANGED <<pool, input, oracle, seeks, matches, ri, ni, S, X, i, call, err>>]_vars

\* The predicate has rejected a seek with two requirements whose first holds.
C11_Witness ==
    /\ pc = "applied"
    /\ verdict = "False"
    /\ Len(pool[1].requirements) = 2
    /\ AllRequirementsHold(N, rsys, SubSeq(pool[1].requirements, 1, 1))
    /\ pool[1].requirements[1].class = pool[1].requirements[2].class

\* C15 (Malformed bounds): applied to a seek that carries a NumPlayers
\* requirement with a bound int() cannot cast, the predicate fails with an
\* InvalidRequirement condition, for every N, tier and order of requirements;
\* it never returns true or false.
C15_InvalidRequirement ==
    (pc = "applied" /\ ~WellFormed(pool)) => verdict = "InvalidRequirement"

\* C12 (Input frame): no step of generate_matches adds to, removes from or
\* reorders the caller's collection, or changes a seek or a requirement in it.
C12_InputUntouched == [][input' = input /\ pool' = pool]_vars

\* A call has returned a match: seeks have left the working copy while the
\* caller's collection still holds them all.
C12_Witness ==
    /\ pc = "done"
    /\ matches # <<>>
    /\ seeks # SetOf(input)
    /\ SetOf(input) = 1..Len(pool)

\* The seeks of all matches emitted so far.
Matched == UNION {Members(a) : a \in 1..Len(matches)}

\* C13 (Residual pool): from the start of the pass on, the working pool is the
\* input set minus the participants of the matches emitted so far; a seek
\* leaves it only in the step that emits a match it takes part in, and all
\* participants of that match leave it.
C13_ResidualPool ==
    /\ [](pc # "idle" => seeks = SetOf(input) \ Matched)
    /\ [][pc # "idle" =>
            /\ seeks' \subseteq seeks
            /\ seeks' # seeks =>
                  /\ Len(matches') = Len(matches) + 1
                  /\ seeks \ seeks' = SetOf(matches'[Len(matches')].seeks)]_vars

\* A pass has ended with a match of three seeks and a seek left over.
C13_Witness ==
    /\ pc = "done"
    /\ \E a \in 1..Len(matches) : Len(matches[a].seeks) = 3
    /\ seeks # {}

\* A step that runs one trial: choose_host is called on a new group.
TrialStep ==
    /\ pc = "trial"
    /\ i' = i + 1 \/ Len(matches') > Len(matches) \/ pc' = "raised"

\* C14 (Failed-trial frame): a trial whose group has no legal host leaves the
\* working pool, the members of S and the emitted matches as they were, so the
\* co-members it sampled can be sampled again for the same X.
C14_FailedTrialFrame ==
    [][(pc = "trial" /\ i' = i + 1) =>
          /\ seeks' = seeks
          /\ matches' = matches
          /\ SetOf(S') = SetOf(S)
          /\ Len(S') = Len(S)
          /\ X' = X
          /\ pc' = "trial"]_vars

\* Two trials for the same X have failed with the only co-member there is.
C14_Witness ==
    /\ pc = "trial"
    /\ i = 2
    /\ call.status = "None"
    /\ Len(S) = 1
    /\ call.players = <<X, S[1]>>

\* C16 (Termination): on every well-formed pool, whatever the random choices
\* and oracle answers, the call runs at most 5 trials per picked X and, once
\* no further step of it is possible, it has returned.
C16_EndsByReturning ==
    /\ i <= 5
    /\ (WellFormed(pool) /\ ~ENABLED Next) => pc = "done"

\* C17 (Group shape): every group handed to choose_host at (tier, N) has
\* exactly N pairwise distinct seeks, N in 2..6, starts with X, and is drawn
\* from the seeks of the working pool that accept (N, tier); an emitted match
\* is such a group and carries tier.
C17_GroupShape ==
    [][TrialStep =>
          LET g == call'.players
          IN  /\ N \in 2..6
              /\ Len(g) = N
              /\ \A j, k \in 1..Len(g) : j # k => g[j] # g[k]
              /\ g[1] = X
              /\ SetOf(g) \subseteq Candidates
              /\ Len(matches') > Len(matches) =>
                    /\ matches'[Len(matches')].seeks = g
                    /\ matches'[Len(matches')].rating_system = rsys]_vars

\* A group of three was handed to choose_host at N = 3 and found no host.
C17_Witness ==
    /\ pc = "trial"
    /\ N = 3
    /\ call.status = "None"
    /\ Len(call.players) = 3
    /\ i >= 1

\* The position of a tier in the priority order.
TierIndex(t) == CHOOSE k \in 1..Len(RSYS) : RSYS[k] = t

====
